---------------------------- MODULE Spec2Model ----------------------------
(* A model of the nubia command engine helpers (nubia/internal/helpers.py) *)
(* and of the shared execution context (nubia/internal/context.py).        *)
(*                                                                         *)
(* A Python str is a sequence of one-character strings.  Every pure helper *)
(* is an operator; a specification draws the helper's inputs in its        *)
(* initial states and its action applies the helper.                       *)
EXTENDS Integers, Sequences, FiniteSets, TLC

VARIABLES
    xval,        \* the object whose str() is handed to matches_choice_pattern
    value,       \* matches_choice_pattern: parameter value
    choices,     \* matches_choice_pattern: parameter choices
    matched,     \* matches_choice_pattern: the returned bool
    mpc,         \* "call" before matches_choice_pattern ran, "done" after
    cmd_input,   \* find_approx: parameter cmd_input
    cmd_map,     \* find_approx: parameter cmd_map, the known command names
    suggestions, \* find_approx: the returned list
    apc,         \* "call" before find_approx ran, "done" after
    name,        \* transform_name / transform_class_name: parameter name
    nfn,         \* which of the two was called
    out,         \* the returned name
    raised,      \* TRUE when the call raised ValueError instead of returning
    npc,         \* "call" before the call, "done" after
    lock,        \* Context._lock, an RLock: its owner and its recursion count
    testing,     \* Context._testing
    registry,    \* Context._registry
    args,        \* Context._args (in the set_args component: a reference)
    cmd,         \* Context._cmd
    raw_cmd,     \* Context._raw_cmd
    tpc,         \* per thread: where it is inside a Context accessor
    call,        \* per thread: the accessor it is in and its argument
    ret,         \* per thread: the value its accessor is about to return
    sugg_list,   \* suggestions_msg: parameter suggestions
    message,     \* suggestions_msg: the returned str
    spc,         \* "call" before suggestions_msg ran, "done" after
    handler,     \* the command handler that is invoked
    result,      \* try_await: parameter result, what the handler's call returned
    left,        \* suspensions the awaited coroutine still has before it ends
    aw_ret,      \* try_await: the returned value
    awpc,        \* where the invocation is: invoke, call, await, done or raised
    on_interrupt,\* run_process: parameter on_interrupt
    previous,    \* the SIGINT handler installed immediately before the call
    sigint,      \* the SIGINT handler installed now
    old_handler, \* run_process: local old_handler
    process,     \* run_process: the child, none, running or exited
    signals,     \* the SIGINTs received during the call, and what each did
    rpc,         \* the line run_process is at, or returned / raised
    script,      \* per caller: the accessor calls it still has to make
    seen,        \* per caller: the values its getter calls returned, in order
    heap,        \* the objects that exist, by reference
    caller_a,    \* the caller's variable a, a reference
    got,         \* what ctx.args returned last, a reference
    dpc,         \* call before set_args(a), stored after
    input,       \* the command lines typed, in order
    jobs         \* per line: its phase, what it was bound to, its handler's outcome, its exit code

matchVars == <<xval, value, choices, matched, mpc>>
approxVars == <<cmd_input, cmd_map, suggestions, apc>>

nameVars == <<name, nfn, out, raised, npc>>

fieldVars == <<testing, registry, args, cmd, raw_cmd>>
ctxVars == <<lock, fieldVars, tpc, call, ret>>

msgVars == <<sugg_list, message, spc>>

awaitVars == <<handler, result, left, aw_ret, awpc>>

runVars == <<on_interrupt, previous, sigint, old_handler, process, signals, rpc>>

pairVars == <<script, seen>>

copyVars == <<heap, caller_a, got, dpc>>

shellVars == <<input, jobs>>

vars == <<matchVars, approxVars, nameVars, ctxVars, msgVars, awaitVars, runVars, pairVars, copyVars, shellVars>>

\* what a call of one component leaves alone: the other components
notMatchVars == <<approxVars, nameVars, ctxVars, msgVars, awaitVars, runVars, pairVars, copyVars, shellVars>>
notApproxVars == <<matchVars, nameVars, ctxVars, msgVars, awaitVars, runVars, pairVars, copyVars, shellVars>>
notNameVars == <<matchVars, approxVars, ctxVars, msgVars, awaitVars, runVars, pairVars, copyVars, shellVars>>
notCtxVars == <<matchVars, approxVars, nameVars, msgVars, awaitVars, runVars, pairVars, copyVars, shellVars>>
notMsgVars == <<matchVars, approxVars, nameVars, ctxVars, awaitVars, runVars, pairVars, copyVars, shellVars>>
notAwaitVars == <<matchVars, approxVars, nameVars, ctxVars, msgVars, runVars, pairVars, copyVars, shellVars>>
notRunVars == <<matchVars, approxVars, nameVars, ctxVars, msgVars, awaitVars, pairVars, copyVars, shellVars>>
\* the callers use the Context: what they leave alone excludes it
notPairVars == <<matchVars, approxVars, nameVars, msgVars, awaitVars, runVars, copyVars, shellVars>>
notCopyVars == <<matchVars, approxVars, nameVars, msgVars, awaitVars, runVars, pairVars, shellVars>>
notShellVars == <<matchVars, approxVars, nameVars, msgVars, awaitVars, runVars, pairVars, copyVars>>

-----------------------------------------------------------------------------
(* Bounds of the model.                                                    *)

MaxValueLen == 3      \* longest text typed as an argument value
MaxChoices == 2       \* longest choices list
MaxInt == 1           \* largest number used as a choice
MaxTypedLen == 3      \* longest mistyped command
MaxCmdLen == 2        \* longest known command name
MaxKnown == 2         \* most known command names
MaxNameLen == 3       \* longest symbol handed to transform_name
NumThreads == 2       \* threads that share the Context
MaxSuggestions == 3   \* longest list handed to suggestions_msg
MaxSuspends == 2      \* most suspensions of an asynchronous handler
MaxSigints == 2       \* most SIGINTs during one call of run_process
MaxCommands == 2      \* commands published while the reader reads
MaxItems == 2         \* longest list nested in the caller's namespace
MaxLines == 2         \* most command lines typed into one shell

-----------------------------------------------------------------------------
(* Python str primitives.                                                  *)

SeqsUpTo(S, n) == UNION {[1..k -> S] : k \in 0..n}

\* s.startswith(p)
startswith(s, p) == Len(s) >= Len(p) /\ SubSeq(s, 1, Len(p)) = p

\* s[n:]
slice_from(s, n) == SubSeq(s, n + 1, Len(s))

Digit(d) ==
    CASE d = 0 -> "0" [] d = 1 -> "1" [] d = 2 -> "2" [] d = 3 -> "3"
      [] d = 4 -> "4" [] d = 5 -> "5" [] d = 6 -> "6" [] d = 7 -> "7"
      [] d = 8 -> "8" [] d = 9 -> "9"

RECURSIVE str_int(_)
\* str(n) of a non-negative int: its decimal digits
str_int(n) == IF n < 10 THEN <<Digit(n)>> ELSE str_int(n \div 10) \o <<Digit(n % 10)>>

(* A choice is an int, a float or a str.  A float n + frac/10 prints as    *)
(* "<n>.<frac>" (the shortest repr, e.g. 3.0 -> "3.0").                     *)
IntObj(n) == [kind |-> "int", n |-> n, frac |-> 0, s |-> <<>>]
FloatObj(n, f) == [kind |-> "float", n |-> n, frac |-> f, s |-> <<>>]
StrObj(s) == [kind |-> "str", n |-> 0, frac |-> 0, s |-> s]

\* str(obj)
str(obj) ==
    CASE obj.kind = "int" -> str_int(obj.n)
      [] obj.kind = "float" -> str_int(obj.n) \o <<".">> \o <<Digit(obj.frac)>>
      [] obj.kind = "str" -> obj.s

RECURSIVE paren_scan(_, _, _)
\* the parser's walk over a pattern: depth of open groups, failing on a ")"
\* with no open group and on a group left open at the end
paren_scan(p, i, depth) ==
    IF i > Len(p) THEN depth = 0
    ELSE IF p[i] = "(" THEN paren_scan(p, i + 1, depth + 1)
    ELSE IF p[i] = ")" THEN depth > 0 /\ paren_scan(p, i + 1, depth - 1)
    ELSE paren_scan(p, i + 1, depth)

\* re.compile(pattern) returns (TRUE) or raises re.error (FALSE).  Over the
\* characters of ValueChars the only syntax errors are an unbalanced ")" and
\* an unterminated "(".
re_compile_ok(pattern) == paren_scan(pattern, 1, 0)

-----------------------------------------------------------------------------
(* matches_choice_pattern                                                  *)

\* [str(choice) for choice in choices]
str_choices(cs) == [i \in DOMAIN cs |-> str(cs[i])]

\* v in lst
in_list(v, lst) == \E i \in DOMAIN lst : lst[i] = v

\* mutant: the choices are compared without str()
matches_choice_pattern_raw(v, cs) ==
    IF startswith(v, <<"!", "~">>) THEN re_compile_ok(slice_from(v, 2))
    ELSE IF startswith(v, <<"~">>) THEN re_compile_ok(slice_from(v, 1))
    ELSE IF startswith(v, <<"!">>) THEN in_list(StrObj(slice_from(v, 1)), cs)
    ELSE in_list(StrObj(v), cs)

\* mutant: the "!" rule accepts when the literal is NOT a choice
matches_choice_pattern_inverted(v, cs) ==
    IF startswith(v, <<"!", "~">>) THEN re_compile_ok(slice_from(v, 2))
    ELSE IF startswith(v, <<"~">>) THEN re_compile_ok(slice_from(v, 1))
    ELSE IF startswith(v, <<"!">>) THEN ~in_list(slice_from(v, 1), str_choices(cs))
    ELSE in_list(v, str_choices(cs))

\* mutant: the "!" rule is tried before the "!~" rule
matches_choice_pattern_bang_first(v, cs) ==
    IF startswith(v, <<"!">>) THEN in_list(slice_from(v, 1), str_choices(cs))
    ELSE IF startswith(v, <<"~">>) THEN re_compile_ok(slice_from(v, 1))
    ELSE in_list(v, str_choices(cs))

matches_choice_pattern(v, cs) ==
    IF startswith(v, <<"!", "~">>) THEN
        \* negated regex pattern: only the syntax of the regex is tested
        re_compile_ok(slice_from(v, 2))
    ELSE IF startswith(v, <<"~">>) THEN
        re_compile_ok(slice_from(v, 1))
    ELSE IF startswith(v, <<"!">>) THEN
        in_list(slice_from(v, 1), str_choices(cs))
    ELSE
        in_list(v, str_choices(cs))

ValueChars == {"!", "~", "1", "(", ")"}

\* the objects a caller stringifies into value
ValueObjs ==
    {StrObj(s) : s \in SeqsUpTo(ValueChars, MaxValueLen)}
        \cup {IntObj(n) : n \in 0..MaxInt}
        \cup {FloatObj(n, 0) : n \in 0..MaxInt}

\* the elements of a choices list: ints, floats and strs, among them strs
\* that begin with a pattern prefix
ChoiceObjs ==
    {IntObj(n) : n \in 1..MaxInt} \cup {FloatObj(n, 0) : n \in 1..MaxInt}
        \cup {StrObj(<<"1">>), StrObj(<<"!", "1">>), StrObj(<<"~", "(">>)}

MatchInit ==
    /\ xval \in ValueObjs
    /\ value = str(xval)
    /\ choices \in SeqsUpTo(ChoiceObjs, MaxChoices)
    /\ matched = FALSE
    /\ mpc = "call"

MatchIdle ==
    /\ xval = StrObj(<<>>)
    /\ value = <<>>
    /\ choices = <<>>
    /\ matched = FALSE
    /\ mpc = "idle"

\* matches_choice_pattern(str(x), choices)
MatchesChoicePattern ==
    /\ mpc = "call"
    /\ matched' = matches_choice_pattern(value, choices)
    /\ mpc' = "done"
    /\ UNCHANGED <<xval, value, choices, notMatchVars>>

MatchNext == MatchesChoicePattern

-----------------------------------------------------------------------------
(* Claims about matches_choice_pattern.                                    *)

\* the string forms of the choices
StrForms == {str(choices[i]) : i \in DOMAIN choices}

\* C1: for every value, a pattern value included, matches_choice_pattern(v, [])
\* is false.
C1_EmptyChoicesRejectAll ==
    (mpc = "done" /\ choices = <<>>) => ~matched

\* C1: the call the claim is about has returned for an empty choices list and a
\* value that begins with a pattern prefix.
C1_Witness ==
    /\ mpc = "done" /\ choices = <<>>
    /\ (startswith(value, <<"~">>) \/ startswith(value, <<"!">>))

\* C2 (as stated): for every choices list C and every value x,
\* matches_choice_pattern(str(x), C) is true exactly when the string form of x
\* is the string form of an element of C.
C2_LiteralMembership ==
    mpc = "done" => (matched <=> str(xval) \in StrForms)

\* x is a literal: its string form begins with no pattern prefix
IsLiteral(v) == ~startswith(v, <<"!">>) /\ ~startswith(v, <<"~">>)

\* C2 (amended): for every choices list C and every value x whose string form
\* begins with neither "!" nor "~", matches_choice_pattern(str(x), C) is true
\* exactly when the string form of x is the string form of an element of C.
C2_LiteralMembershipOfLiterals ==
    (mpc = "done" /\ IsLiteral(str(xval))) =>
        (matched <=> \E c \in {choices[i] : i \in DOMAIN choices} : str(c) = str(xval))

\* C2: an int was matched against a choice of another type with the same
\* string form.
C2_Witness ==
    /\ mpc = "done" /\ matched
    /\ xval.kind = "int"
    /\ \A i \in DOMAIN choices : choices[i].kind # "int"

\* C3 (as stated): for every choices list C and text x,
\* matches_choice_pattern("!" + x, C) is true exactly when x is the string form
\* of an element of C.
C3_NegationIffMember ==
    (mpc = "done" /\ startswith(value, <<"!">>)) =>
        (matched <=> slice_from(value, 1) \in StrForms)

\* C3 (amended): for every choices list C and text x that does not begin with
\* "~", matches_choice_pattern("!" + x, C) is true exactly when x is the string
\* form of an element of C.
C3_NegationIffMemberUnlessRegex ==
    (mpc = "done" /\ startswith(value, <<"!">>)
        /\ ~startswith(slice_from(value, 1), <<"~">>)) =>
        (matched <=> slice_from(value, 1) \in StrForms)

\* C3: a negation of an existing choice was accepted.
C3_Witness ==
    /\ mpc = "done" /\ matched
    /\ startswith(value, <<"!">>) /\ ~startswith(value, <<"!", "~">>)
    /\ slice_from(value, 1) \in StrForms

-----------------------------------------------------------------------------
(* find_approx                                                             *)

\* c.lower() of one character
lower_char(c) ==
    CASE c = "A" -> "a" [] c = "B" -> "b" [] c = "C" -> "c" [] c = "T" -> "t"
      [] c = "É" -> "é"
      [] OTHER -> c

\* s.lower()
lower(s) == [i \in DOMAIN s |-> lower_char(s[i])]

\* ord(c), for the characters of names
ord(c) ==
    CASE c = " " -> 32 [] c = "-" -> 45 [] c = "A" -> 65 [] c = "B" -> 66
      [] c = "C" -> 67 [] c = "_" -> 95 [] c = "a" -> 97 [] c = "b" -> 98
      [] c = "c" -> 99

\* a < b on str: the first differing character decides, a proper prefix is less
str_less(a, b) ==
    \/ Len(a) < Len(b) /\ SubSeq(b, 1, Len(a)) = a
    \/ \E k \in 1..Len(a) :
          /\ k <= Len(b)
          /\ SubSeq(a, 1, k - 1) = SubSeq(b, 1, k - 1)
          /\ ord(a[k]) < ord(b[k])

Min(S) == CHOOSE m \in S : \A o \in S : m <= o

\* the largest index k < i with s[k] = c, or 0
last_before(s, i, c) ==
    LET hits == {k \in 1..(i - 1) : s[k] = c}
    IN IF hits = {} THEN 0 ELSE CHOOSE k \in hits : \A o \in hits : o <= k

\* one cell of the score table: substitution, insertion, deletion and the
\* transposition with the last rows/columns that held the two characters
dl_cell(s1, s2, T, i, j) ==
    LET cost == IF s1[i] = s2[j] THEN 0 ELSE 1
        i1 == last_before(s1, i, s2[j])
        j1 == last_before(s2, j, s1[i])
        base == {T[<<i - 1, j - 1>>] + cost, T[<<i, j - 1>>] + 1, T[<<i - 1, j>>] + 1}
    IN Min(base \cup
           (IF i1 > 0 /\ j1 > 0
            THEN {T[<<i1 - 1, j1 - 1>>] + (i - i1 - 1) + 1 + (j - j1 - 1)}
            ELSE {}))

RECURSIVE dl_fill(_, _, _, _, _)
\* the two nested loops over the score table, row by row
dl_fill(s1, s2, T, i, j) ==
    IF i > Len(s1) THEN T
    ELSE IF j > Len(s2) THEN dl_fill(s1, s2, T, i + 1, 1)
    ELSE dl_fill(s1, s2, [T EXCEPT ![<<i, j>>] = dl_cell(s1, s2, T, i, j)], i, j + 1)

\* jellyfish.damerau_levenshtein_distance(s1, s2): insertions, deletions,
\* substitutions and transpositions of adjacent characters
damerau_levenshtein_distance(s1, s2) ==
    LET T0 == [p \in (0..Len(s1)) \X (0..Len(s2)) |->
                  IF p[1] = 0 THEN p[2] ELSE IF p[2] = 0 THEN p[1] ELSE 0]
    IN dl_fill(s1, s2, T0, 1, 1)[<<Len(s1), Len(s2)>>]

RECURSIVE sorted(_)
\* sorted(names): ascending str order
sorted(S) ==
    IF S = {} THEN <<>>
    ELSE LET m == CHOOSE a \in S : \A b \in S \ {a} : str_less(a, b)
         IN <<m>> \o sorted(S \ {m})

\* key=lambda i: (i[1], i[0]) on the (name, distance) items
item_less(a, b) == a[2] < b[2] \/ (a[2] = b[2] /\ str_less(a[1], b[1]))

RECURSIVE sorted_items(_)
\* sorted(levenshtein_suggestions.items(), key=...)
sorted_items(S) ==
    IF S = {} THEN <<>>
    ELSE LET m == CHOOSE a \in S : \A b \in S \ {a} : item_less(a, b)
         IN <<m>> \o sorted_items(S \ {m})

\* mutant: the typed command is not lower-cased
find_approx_no_lower(typed, known) ==
    LET prefix_suggestions == {c \in known : startswith(c, typed)}
        distance ==
            [c \in {k \in known : ~startswith(k, typed) /\ Len(k) > 1} |->
                damerau_levenshtein_distance(typed, c)]
        levenshtein_suggestions ==
            {<<c, distance[c]>> : c \in {k \in DOMAIN distance : distance[k] <= 2}}
        items == sorted_items(levenshtein_suggestions)
    IN IF prefix_suggestions # {} THEN sorted(prefix_suggestions)
       ELSE [i \in DOMAIN items |-> items[i][1]]

\* mutant: single-letter commands are suggested by distance too
find_approx_single_letters(typed, known) ==
    LET prefix_suggestions == {c \in known : startswith(c, lower(typed))}
        distance ==
            [c \in {k \in known : ~startswith(k, lower(typed))} |->
                damerau_levenshtein_distance(lower(typed), c)]
        levenshtein_suggestions ==
            {<<c, distance[c]>> : c \in {k \in DOMAIN distance : distance[k] <= 2}}
        items == sorted_items(levenshtein_suggestions)
    IN IF prefix_suggestions # {} THEN sorted(prefix_suggestions)
       ELSE [i \in DOMAIN items |-> items[i][1]]

find_approx(typed, known) ==
    LET prefix_suggestions == {c \in known : startswith(c, lower(typed))}
        \* the elif branch: not a prefix match and longer than one letter
        distance ==
            [c \in {k \in known : ~startswith(k, lower(typed)) /\ Len(k) > 1} |->
                damerau_levenshtein_distance(lower(typed), c)]
        levenshtein_suggestions ==
            {<<c, distance[c]>> : c \in {k \in DOMAIN distance : distance[k] <= 2}}
        items == sorted_items(levenshtein_suggestions)
    IN IF prefix_suggestions # {} THEN sorted(prefix_suggestions)
       ELSE [i \in DOMAIN items |-> items[i][1]]

TypedChars == {"a", "b", "A"}
CmdChars == {"a", "b"}

\* the command names a registry can hold
CmdNames == SeqsUpTo(CmdChars, MaxCmdLen) \ {<<>>}

ApproxInit ==
    /\ cmd_input \in SeqsUpTo(TypedChars, MaxTypedLen)
    /\ cmd_map \in {S \in SUBSET CmdNames : Cardinality(S) <= MaxKnown}
    /\ suggestions = <<>>
    /\ apc = "call"

ApproxIdle ==
    /\ cmd_input = <<>>
    /\ cmd_map = {}
    /\ suggestions = <<>>
    /\ apc = "idle"

\* find_approx(cmd_input, cmd_map)
FindApprox ==
    /\ apc = "call"
    /\ suggestions' = find_approx(cmd_input, cmd_map)
    /\ apc' = "done"
    /\ UNCHANGED <<cmd_input, cmd_map, notApproxVars>>

ApproxNext == FindApprox

-----------------------------------------------------------------------------
(* Claims about find_approx.                                               *)

\* the known names that start with the lower-cased typed string
PrefixMatches == {c \in cmd_map : startswith(c, lower(cmd_input))}

\* the distance of a known name to the lower-cased typed string
Distance(c) == damerau_levenshtein_distance(lower(cmd_input), c)

Suggested == {suggestions[i] : i \in DOMAIN suggestions}

\* C5: when a known name starts with the lower-cased typed string, find_approx
\* returns exactly the prefix-matching names in ascending order, and no name
\* found only by edit distance.
C5_PrefixMatchesWin ==
    (apc = "done" /\ PrefixMatches # {}) =>
        /\ Suggested = PrefixMatches
        /\ Len(suggestions) = Cardinality(PrefixMatches)
        /\ \A i, j \in DOMAIN suggestions :
              i < j => str_less(suggestions[i], suggestions[j])

\* C5: prefix matches were returned for an upper-case typed string while
\* another known name within edit distance 2 was left out.
C5_Witness ==
    /\ apc = "done" /\ PrefixMatches # {} /\ Len(suggestions) >= 1
    /\ cmd_input # lower(cmd_input)
    /\ \E c \in cmd_map \ PrefixMatches : Len(c) > 1 /\ Distance(c) <= 2

\* C6: with no prefix match, find_approx returns exactly the known names longer
\* than one character whose Damerau-Levenshtein distance to the lower-cased
\* typed string is at most 2, by distance ascending and then by name ascending
\* (an empty list when there is none).
C6_DistanceFallback ==
    (apc = "done" /\ PrefixMatches = {}) =>
        LET dist == [c \in cmd_map |-> Distance(c)]
            near == {c \in cmd_map : Len(c) > 1 /\ dist[c] <= 2}
        IN /\ Suggested = near
           /\ Len(suggestions) = Cardinality(near)
           /\ \A i, j \in DOMAIN suggestions :
                 i < j =>
                    \/ dist[suggestions[i]] < dist[suggestions[j]]
                    \/ /\ dist[suggestions[i]] = dist[suggestions[j]]
                       /\ str_less(suggestions[i], suggestions[j])

\* C6: two names were suggested by distance, the nearer one first although it
\* is the greater name.
C6_Witness ==
    /\ apc = "done" /\ PrefixMatches = {} /\ Len(suggestions) = 2
    /\ str_less(suggestions[2], suggestions[1])
    /\ Distance(suggestions[1]) < Distance(suggestions[2])

-----------------------------------------------------------------------------
(* transform_name and transform_class_name                                 *)

\* str.strip() removes the white space at both ends
IsSpace(c) == c = " "

RECURSIVE lstrip(_)
lstrip(s) == IF s # <<>> /\ IsSpace(Head(s)) THEN lstrip(Tail(s)) ELSE s

RECURSIVE rstrip(_)
rstrip(s) ==
    IF s # <<>> /\ IsSpace(s[Len(s)]) THEN rstrip(SubSeq(s, 1, Len(s) - 1)) ELSE s

\* name.strip()
strip(s) == rstrip(lstrip(s))

RECURSIVE sub_runs(_, _, _)
\* re.sub(r"{from_char}+", to_char, s): every maximal run of from_char becomes
\* one to_char
sub_runs(s, from_char, to_char) ==
    IF s = <<>> THEN <<>>
    ELSE IF Head(s) = from_char THEN
        IF Len(s) > 1 /\ s[2] = from_char
        THEN sub_runs(Tail(s), from_char, to_char)
        ELSE <<to_char>> \o sub_runs(Tail(s), from_char, to_char)
    ELSE <<Head(s)>> \o sub_runs(Tail(s), from_char, to_char)

\* re.sub(r"^{to_char}|{to_char}$", "", s): the pattern matches one to_char at
\* the start and one to_char at the end of what follows
sub_edges(s, to_char) ==
    LET a == IF s # <<>> /\ Head(s) = to_char THEN Tail(s) ELSE s
    IN IF a # <<>> /\ a[Len(a)] = to_char THEN SubSeq(a, 1, Len(a) - 1) ELSE a

\* the call either raises ValueError (raised) or returns value
transform_name(s, from_char, to_char) ==
    LET n == sub_edges(sub_runs(strip(s), from_char, to_char), to_char)
    IN [raised |-> n = <<>>, value |-> n]

\* string.ascii_uppercase
ascii_uppercase ==
    {"A", "B", "C", "D", "E", "F", "G", "H", "I", "J", "K", "L", "M", "N", "O",
     "P", "Q", "R", "S", "T", "U", "V", "W", "X", "Y", "Z"}

RECURSIVE class_loop(_, _, _)
\* for c in new_name: ... res.append(...)
class_loop(new_name, i, res) ==
    IF i > Len(new_name) THEN res
    ELSE IF new_name[i] \in ascii_uppercase /\ Len(res) > 0
    THEN class_loop(new_name, i + 1, res \o <<"-", lower_char(new_name[i])>>)
    ELSE class_loop(new_name, i + 1, res \o <<lower_char(new_name[i])>>)

RECURSIVE class_loop_every(_, _, _)
class_loop_every(new_name, i, res) ==
    IF i > Len(new_name) THEN res
    ELSE IF new_name[i] \in ascii_uppercase
    THEN class_loop_every(new_name, i + 1, res \o <<"-", lower_char(new_name[i])>>)
    ELSE class_loop_every(new_name, i + 1, res \o <<lower_char(new_name[i])>>)

\* mutant: a separator is put before a leading upper-case letter too
transform_class_name_leading(s) ==
    LET new_name == transform_name(s, "_", "-")
    IN IF new_name.raised THEN new_name
       ELSE [raised |-> FALSE, value |-> class_loop_every(new_name.value, 1, <<>>)]

transform_class_name(s) ==
    LET new_name == transform_name(s, "_", "-")
    IN IF new_name.raised THEN new_name
       ELSE [raised |-> FALSE, value |-> class_loop(new_name.value, 1, <<>>)]

NameChars == {"_", "-", " ", "a", "B", "É"}

NameInit ==
    /\ name \in SeqsUpTo(NameChars, MaxNameLen)
    /\ nfn = "none"
    /\ out = <<>>
    /\ raised = FALSE
    /\ npc = "call"

NameIdle ==
    /\ name = <<>>
    /\ nfn = "none"
    /\ out = <<>>
    /\ raised = FALSE
    /\ npc = "idle"

\* transform_name(name), with the default separators
TransformName ==
    /\ npc = "call"
    /\ LET r == transform_name(name, "_", "-")
       IN /\ out' = r.value
          /\ raised' = r.raised
    /\ nfn' = "transform_name"
    /\ npc' = "done"
    /\ UNCHANGED <<name, notNameVars>>

\* transform_class_name(name)
TransformClassName ==
    /\ npc = "call"
    /\ LET r == transform_class_name(name)
       IN /\ out' = r.value
          /\ raised' = r.raised
    /\ nfn' = "transform_class_name"
    /\ npc' = "done"
    /\ UNCHANGED <<name, notNameVars>>

NameNext == TransformName \/ TransformClassName

-----------------------------------------------------------------------------
(* Claims about transform_name and transform_class_name.                   *)

Returned(fn) == npc = "done" /\ nfn = fn /\ ~raised

\* C7: name normalization is idempotent: when transform_name(x) returns a
\* value, transform_name of that value returns the same value.
C7_Idempotent ==
    Returned("transform_name") =>
        transform_name(out, "_", "-") = [raised |-> FALSE, value |-> out]

\* C7: transform_name returned a name that still begins with the output
\* separator.
C7_Witness ==
    Returned("transform_name") /\ Head(out) = "-"

\* C8: a name returned by transform_name is not empty, holds no input
\* separator and neither begins nor ends with the output separator; the call
\* fails exactly when nothing is left of the name.
C8_NormalForm ==
    (npc = "done" /\ nfn = "transform_name") =>
        /\ raised <=> out = <<>>
        /\ ~raised =>
              /\ \A i \in DOMAIN out : out[i] # "_"
              /\ Head(out) # "-"
              /\ out[Len(out)] # "-"

\* C8: transform_name returned a name that ends with the output separator.
C8_Witness ==
    Returned("transform_name") /\ out[Len(out)] = "-"

\* a letter that lower() changes
IsUpper(c) == lower_char(c) # c

\* the name transform_class_name starts from
Normalized == transform_name(name, "_", "-").value

\* the position in the class name's result of character i of the normalized
\* name, when a separator precedes every character of Marks but the first
PosIn(i, Marks) == i + Cardinality({k \in 2..i : Normalized[k] \in Marks})

ClassNameSplitAt(Marks) ==
    /\ Len(out) = PosIn(Len(Normalized), Marks)
    /\ \A i \in DOMAIN Normalized :
          /\ out[PosIn(i, Marks)] = lower_char(Normalized[i])
          /\ (i > 1 /\ Normalized[i] \in Marks) => out[PosIn(i, Marks) - 1] = "-"
    /\ \A i \in DOMAIN out : ~IsUpper(out[i])

\* C9 (as stated): transform_class_name returns the normalized name with the
\* output separator inserted before each uppercase letter that is not the
\* first character and every letter lower-cased; the result has no uppercase
\* letter.
C9_SplitAtUppercase ==
    Returned("transform_class_name") =>
        ClassNameSplitAt({c \in NameChars : IsUpper(c)})

\* C9 (amended): transform_class_name returns the normalized name with the
\* output separator inserted before each ASCII uppercase letter (A-Z) that is
\* not the first character and every letter lower-cased; the result has no
\* uppercase letter.
C9_SplitAtAsciiUppercase ==
    Returned("transform_class_name") => ClassNameSplitAt(ascii_uppercase)

\* C9: a class name with an interior ASCII uppercase letter was split there,
\* and its leading uppercase letter was only lower-cased.
C9_Witness ==
    /\ Returned("transform_class_name")
    /\ name = <<"B", "a", "B">>
    /\ out = <<"b", "a", "-", "b">>

-----------------------------------------------------------------------------
(* Context: the fields behind one RLock, and the threads that use them.    *)

Threads == 1..NumThreads

\* the RLock is owned by no thread
NoThread == 0

\* Python values of the fields
None == "None"
EmptyStr == ""

\* Context.__init__ sets _args = {}, a dict; set_args stores a namespace
DictArgs == [kind |-> "dict", verbose |-> 0]
Namespace(v) == [kind |-> "namespace", verbose |-> v]

RECURSIVE int_of(_, _)
\* int(text) of a text of decimal digits, most significant first
int_of(text, acc) ==
    IF text = <<>> THEN acc
    ELSE int_of(Tail(text), 10 * acc + (CHOOSE d \in 0..9 : Digit(d) = Head(text)))

IsDigits(text) ==
    text # <<>> /\ \A i \in DOMAIN text : \E d \in 0..9 : Digit(d) = text[i]

\* set_verbose: int(raw_value), and on ValueError int(raw_value.lower() == "true")
verbose_value(raw_value) ==
    IF IsDigits(raw_value) THEN int_of(raw_value, 0)
    ELSE IF lower(raw_value) = <<"t", "r", "u", "e">> THEN 1 ELSE 0

\* the values callers hand to the setters
TestingArgs == {"True"}
RegistryArgs == {"registry"}
ArgsArgs == {Namespace(0)}
VerboseArgs == {<<"1">>, <<"T", "r", "u", "e">>, <<"n", "o">>}
CmdArgs == {"lookup"}
RawCmdArgs == {"lookup x"}

Getters == {"testing", "registry", "args", "cmd", "raw_cmd"}

NoArg == "-"

\* every call of an accessor: its name and its argument
Calls ==
    {[op |-> g, arg |-> NoArg] : g \in Getters}
        \cup {[op |-> "set_testing", arg |-> a] : a \in TestingArgs}
        \cup {[op |-> "set_registry", arg |-> a] : a \in RegistryArgs}
        \cup {[op |-> "set_args", arg |-> a] : a \in ArgsArgs}
        \cup {[op |-> "set_verbose", arg |-> a] : a \in VerboseArgs}
        \cup {[op |-> "set_cmd", arg |-> a] : a \in CmdArgs}
        \cup {[op |-> "set_raw_cmd", arg |-> a] : a \in RawCmdArgs}

NoCall == [op |-> "none", arg |-> NoArg]

\* Context.__init__
CtxInit ==
    /\ lock = [owner |-> NoThread, count |-> 0]
    /\ testing = None
    /\ registry = None
    /\ args = DictArgs
    /\ cmd = EmptyStr
    /\ raw_cmd = EmptyStr
    /\ tpc = [t \in Threads |-> "idle"]
    /\ call = [t \in Threads |-> NoCall]
    /\ ret = [t \in Threads |-> None]

CtxIdle ==
    /\ lock = [owner |-> NoThread, count |-> 0]
    /\ testing = None
    /\ registry = None
    /\ args = DictArgs
    /\ cmd = EmptyStr
    /\ raw_cmd = EmptyStr
    /\ tpc = [t \in Threads |-> "off"]
    /\ call = [t \in Threads |-> NoCall]
    /\ ret = [t \in Threads |-> None]

\* mutant: the lock is taken whoever owns it
can_acquire_unowned(t) == TRUE

\* RLock.acquire blocks while another thread owns the lock
can_acquire(t) == lock.owner \in {NoThread, t}

\* a thread enters an accessor and reaches its "with self._lock:"
Call(t, c) ==
    /\ tpc[t] = "idle"
    /\ call' = [call EXCEPT ![t] = c]
    /\ tpc' = [tpc EXCEPT ![t] = "acquire"]
    /\ UNCHANGED <<lock, fieldVars, ret, notCtxVars>>

\* "with self._lock:" is entered
Acquire(t) ==
    /\ tpc[t] = "acquire"
    /\ can_acquire(t)
    /\ lock' = [owner |-> t, count |-> IF lock.owner = t THEN lock.count + 1 ELSE 1]
    /\ tpc' = [tpc EXCEPT ![t] = "access"]
    /\ UNCHANGED <<fieldVars, call, ret, notCtxVars>>

\* the body of the with block of a getter: the field is read
Read(t) ==
    /\ tpc[t] = "access"
    /\ call[t].op \in Getters
    /\ ret' = [ret EXCEPT ![t] =
                  CASE call[t].op = "testing" -> testing
                    [] call[t].op = "registry" -> registry
                    [] call[t].op = "args" -> args
                    [] call[t].op = "cmd" -> cmd
                    [] call[t].op = "raw_cmd" -> raw_cmd]
    /\ tpc' = [tpc EXCEPT ![t] = "release"]
    /\ UNCHANGED <<lock, fieldVars, call, notCtxVars>>

\* the body of the with block of a setter: the field is written.  set_verbose
\* writes the verbose attribute of _args, which a dict does not take
\* (AttributeError, the field is left as it is)
Write(t) ==
    /\ tpc[t] = "access"
    /\ call[t].op \notin Getters
    /\ testing' = IF call[t].op = "set_testing" THEN call[t].arg ELSE testing
    /\ registry' = IF call[t].op = "set_registry" THEN call[t].arg ELSE registry
    /\ args' = CASE call[t].op = "set_args" -> call[t].arg
                 [] call[t].op = "set_verbose" /\ args.kind = "namespace" ->
                       [args EXCEPT !.verbose = verbose_value(call[t].arg)]
                 [] OTHER -> args
    /\ cmd' = IF call[t].op = "set_cmd" THEN call[t].arg ELSE cmd
    /\ raw_cmd' = IF call[t].op = "set_raw_cmd" THEN call[t].arg ELSE raw_cmd
    /\ tpc' = [tpc EXCEPT ![t] = "release"]
    /\ UNCHANGED <<lock, call, ret, notCtxVars>>

\* the with block is left and the accessor returns
Release(t) ==
    /\ tpc[t] = "release"
    /\ lock' = IF lock.count > 1 THEN [lock EXCEPT !.count = lock.count - 1]
               ELSE [owner |-> NoThread, count |-> 0]
    /\ tpc' = [tpc EXCEPT ![t] = "idle"]
    /\ call' = [call EXCEPT ![t] = NoCall]
    /\ ret' = [ret EXCEPT ![t] = None]
    /\ UNCHANGED <<fieldVars, notCtxVars>>

CtxNext ==
    \E t \in Threads :
        \/ \E c \in Calls : Call(t, c)
        \/ Acquire(t)
        \/ Read(t)
        \/ Write(t)
        \/ Release(t)

-----------------------------------------------------------------------------
(* Claims about the Context lock.                                          *)

\* a thread is inside the with block of an accessor, where the field is read
\* or written
InFieldAccess(t) == tpc[t] \in {"access", "release"}

\* C10: in every interleaving of threads calling the getters and setters of
\* testing, registry, args, cmd and raw_cmd (set_verbose included), a thread
\* reads or writes a field only while it holds the Context's lock, and no two
\* threads are inside a field access at the same time.
C10_FieldAccessUnderLock ==
    /\ \A t \in Threads : InFieldAccess(t) => (lock.owner = t /\ lock.count > 0)
    /\ \A t1, t2 \in Threads :
          (InFieldAccess(t1) /\ InFieldAccess(t2)) => t1 = t2

\* C10: one thread is about to write a field inside set_verbose while another
\* thread waits for the lock in a getter.
C10_Witness ==
    \E t1, t2 \in Threads :
        /\ tpc[t1] = "access" /\ call[t1].op = "set_verbose"
        /\ tpc[t2] = "acquire" /\ call[t2].op \in Getters

-----------------------------------------------------------------------------
(* suggestions_msg                                                         *)

RECURSIVE join(_, _)
\* sep.join(xs)
join(sep, xs) ==
    IF xs = <<>> THEN <<>>
    ELSE IF Len(xs) = 1 THEN xs[1]
    ELSE xs[1] \o sep \o join(sep, Tail(xs))

\* the literal pieces of the f-string
DidYouMean ==
    <<",", " ", "D", "i", "d", " ", "y", "o", "u", " ", "m", "e", "a", "n", " ">>
OrSep == <<" ", "o", "r", " ">>
CommaSep == <<",", " ">>

\* suggestions_msg(suggestions)
suggestions_msg(s) ==
    IF s = <<>> THEN <<>>
    ELSE DidYouMean \o join(CommaSep, SubSeq(s, 1, Len(s) - 1))
             \o OrSep \o s[Len(s)] \o <<"?">>

\* the suggestions are command names
SuggestionNames == {<<"a">>, <<"b">>, <<"a", "b">>, <<"b", "a">>}

MsgInit ==
    /\ sugg_list \in SeqsUpTo(SuggestionNames, MaxSuggestions)
    /\ message = <<>>
    /\ spc = "call"

MsgIdle ==
    /\ sugg_list = <<>>
    /\ message = <<>>
    /\ spc = "idle"

\* suggestions_msg(suggestions)
SuggestionsMsg ==
    /\ spc = "call"
    /\ message' = suggestions_msg(sugg_list)
    /\ spc' = "done"
    /\ UNCHANGED <<sugg_list, notMsgVars>>

MsgNext == SuggestionsMsg

-----------------------------------------------------------------------------
(* Claims about suggestions_msg.                                           *)

\* p occurs in s at position i
OccursAt(s, p, i) ==
    i >= 1 /\ i + Len(p) - 1 <= Len(s) /\ SubSeq(s, i, i + Len(p) - 1) = p

RECURSIVE Split(_, _)
\* the pieces of s between the occurrences of sep, read left to right
Split(s, sep) ==
    LET at == {i \in 1..Len(s) : OccursAt(s, sep, i)}
    IN IF at = {} THEN <<s>>
       ELSE LET i == CHOOSE j \in at : \A k \in at : j <= k
            IN <<SubSeq(s, 1, i - 1)>>
                   \o Split(SubSeq(s, i + Len(sep), Len(s)), sep)

\* the items a reader finds in a list "x, y or z": the comma-separated items
\* before the last "or", then the item after it; without an "or" the text is
\* one item
ListedItems(body) ==
    LET at == {i \in 1..Len(body) : OccursAt(body, OrSep, i)}
    IN IF at = {} THEN <<body>>
       ELSE LET i == CHOOSE j \in at : \A k \in at : j >= k
            IN Split(SubSeq(body, 1, i - 1), CommaSep)
                   \o <<SubSeq(body, i + Len(OrSep), Len(body))>>

\* the text of the message between "Did you mean " and "?"
MessageBody(m) == SubSeq(m, Len(DidYouMean) + 1, Len(m) - 1)

\* C16: suggestions_msg returns the empty message exactly for the empty
\* sequence; every other message is "Did you mean <list>?" where the list names
\* every suggestion once, in the given order, separated by commas, with "or"
\* between the last item and the ones before it.
C16_CommaListJoinedByOr ==
    spc = "done" =>
        /\ (message = <<>>) <=> (sugg_list = <<>>)
        /\ sugg_list # <<>> =>
              /\ startswith(message, DidYouMean)
              /\ message[Len(message)] = "?"
              /\ ListedItems(MessageBody(message)) = sugg_list

\* C16: for two or more suggestions the message lists exactly the suggestions.
C16_TwoOrMoreListed ==
    (spc = "done" /\ Len(sugg_list) >= 2) =>
        /\ startswith(message, DidYouMean)
        /\ message[Len(message)] = "?"
        /\ ListedItems(MessageBody(message)) = sugg_list

\* C16: suggestions_msg was handed a single suggestion.
C16_Witness == spc = "done" /\ Len(sugg_list) = 1 /\ message # <<>>

-----------------------------------------------------------------------------
(* try_await, and the handlers whose results it is handed.                 *)

\* None
NoneObj == [kind |-> "NoneType", n |-> 0, frac |-> 0, s |-> <<>>]

\* the coroutine object a call of an async def handler returns: awaiting it
\* runs the body, which suspends `suspends` times and then returns `value` or
\* raises
Coroutine(v, n, r) ==
    [kind |-> "coroutine", value |-> v, suspends |-> n, raises |-> r]

\* a handler: def or async def, what its body returns, whether the body raises
\* instead, and how often an async body suspends (await asyncio.sleep(..))
Handlers ==
    {h \in [is_async : BOOLEAN,
            value : {NoneObj, IntObj(0), IntObj(22), IntObj(45)},
            raises : BOOLEAN,
            suspends : 0..MaxSuspends] : ~h.is_async => h.suspends = 0}

\* a reading of inspect.isawaitable that takes nothing for an awaitable
isawaitable_never(x) == FALSE

\* inspect.isawaitable(x)
isawaitable(x) == x.kind = "coroutine"

AwaitInit ==
    /\ handler \in Handlers
    /\ result = NoneObj
    /\ left = 0
    /\ aw_ret = NoneObj
    /\ awpc = "invoke"

AwaitIdle ==
    /\ handler = [is_async |-> FALSE, value |-> NoneObj, raises |-> FALSE,
                  suspends |-> 0]
    /\ result = NoneObj
    /\ left = 0
    /\ aw_ret = NoneObj
    /\ awpc = "idle"

\* fn(**args): a def handler runs its body at once; an async def handler
\* returns a coroutine object and runs nothing yet
InvokeHandler ==
    /\ awpc = "invoke"
    /\ IF handler.is_async
       THEN /\ result' = Coroutine(handler.value, handler.suspends, handler.raises)
            /\ awpc' = "call"
       ELSE /\ result' = handler.value
            /\ awpc' = IF handler.raises THEN "raised" ELSE "call"
    /\ UNCHANGED <<handler, left, aw_ret, notAwaitVars>>

\* try_await(result): the test of inspect.isawaitable and the plain return
TryAwait ==
    /\ awpc = "call"
    /\ IF isawaitable(result)
       THEN /\ left' = result.suspends
            /\ awpc' = "await"
            /\ UNCHANGED aw_ret
       ELSE /\ aw_ret' = result
            /\ awpc' = "done"
            /\ UNCHANGED left
    /\ UNCHANGED <<handler, result, notAwaitVars>>

\* await result: the coroutine was suspended and is resumed by the event loop
Resume ==
    /\ awpc = "await"
    /\ left > 0
    /\ left' = left - 1
    /\ UNCHANGED <<handler, result, aw_ret, awpc, notAwaitVars>>

\* await result: the coroutine's body ends, and try_await returns its value or
\* lets its exception through
Complete ==
    /\ awpc = "await"
    /\ left = 0
    /\ IF result.raises
       THEN awpc' = "raised" /\ UNCHANGED aw_ret
       ELSE awpc' = "done" /\ aw_ret' = result.value
    /\ UNCHANGED <<handler, result, left, notAwaitVars>>

AwaitNext == InvokeHandler \/ TryAwait \/ Resume \/ Complete

-----------------------------------------------------------------------------
(* Claims about try_await.                                                 *)

\* C12: try_await returns its argument itself when the argument is not
\* awaitable and the value the awaitable delivers when it is, so the result of
\* dispatching to a handler is the value the handler's body returns, whether
\* the handler is synchronous or asynchronous.
C12_UniformInvocation ==
    awpc = "done" =>
        /\ aw_ret = IF result.kind = "coroutine" THEN result.value ELSE result
        /\ aw_ret = handler.value

\* C12: an asynchronous handler that suspended has delivered 45 through
\* try_await, the value the synchronous handler of the same test returns.
C12_Witness ==
    /\ awpc = "done"
    /\ handler.is_async /\ handler.suspends > 0
    /\ aw_ret = IntObj(45)

-----------------------------------------------------------------------------
(* run_process: a child process, and SIGINT while the call is in progress. *)

\* the closure run_process installs
Handler == "handler"

\* on_interrupt is not supplied, a callable that returns or a callable that
\* raises; the handler SIGINT has before the call is Python's
\* signal.default_int_handler, which raises KeyboardInterrupt, or a handler
\* of the caller that returns
RunInit ==
    /\ on_interrupt \in {"None", "returns", "raises"}
    /\ previous \in {"default_int_handler", "caller_handler"}
    /\ sigint = previous
    /\ old_handler = "unset"
    /\ process = "none"
    /\ signals = <<>>
    /\ rpc = "getsignal"

RunIdle ==
    /\ on_interrupt = "None"
    /\ previous = "default_int_handler"
    /\ sigint = "default_int_handler"
    /\ old_handler = "unset"
    /\ process = "none"
    /\ signals = <<>>
    /\ rpc = "idle"

\* old_handler = signal.getsignal(signal.SIGINT)
GetSignal ==
    /\ rpc = "getsignal"
    /\ old_handler' = sigint
    /\ rpc' = "Popen"
    /\ UNCHANGED <<on_interrupt, previous, sigint, process, signals, notRunVars>>

\* process = subprocess.Popen(process_arg_list, cwd=working_dir): the child
\* runs from here on, or OSError is raised when the command does not exist
Popen ==
    /\ rpc = "Popen"
    /\ \/ process' = "running" /\ rpc' = "signal"
       \/ process' = "none" /\ rpc' = "raised"
    /\ UNCHANGED <<on_interrupt, previous, sigint, old_handler, signals, notRunVars>>

\* def handler(signum, frame): ...; signal.signal(signal.SIGINT, handler)
InstallHandler ==
    /\ rpc = "signal"
    /\ sigint' = Handler
    /\ rpc' = "wait"
    /\ UNCHANGED <<on_interrupt, previous, old_handler, process, signals, notRunVars>>

\* the child terminates, by itself or because of a SIGTERM
ChildExits ==
    /\ process = "running"
    /\ process' = "exited"
    /\ UNCHANGED <<on_interrupt, previous, sigint, old_handler, signals, rpc, notRunVars>>

\* rv = process.wait() returns once the child has terminated
Wait ==
    /\ rpc = "wait"
    /\ process = "exited"
    /\ rpc' = "restore"
    /\ UNCHANGED <<on_interrupt, previous, sigint, old_handler, process, signals, notRunVars>>

\* signal.signal(signal.SIGINT, old_handler)
Restore ==
    /\ rpc = "restore"
    /\ sigint' = old_handler
    /\ rpc' = "return"
    /\ UNCHANGED <<on_interrupt, previous, old_handler, process, signals, notRunVars>>

\* return rv
Return ==
    /\ rpc = "return"
    /\ rpc' = "returned"
    /\ UNCHANGED <<on_interrupt, previous, sigint, old_handler, process, signals, notRunVars>>

\* what one SIGINT does, by the handler installed when it arrives.  handler()
\* calls process.send_signal(SIGTERM), which signals a child that has not
\* terminated, and then on_interrupt() if one was supplied; an exception of
\* on_interrupt, like the KeyboardInterrupt of default_int_handler, is raised
\* in the line of run_process that was running
sigint_effect ==
    IF sigint = Handler
    THEN [ran |-> Handler,
          child |-> process,
          sigterm |-> process = "running",
          callbacks |-> IF on_interrupt = "None" THEN 0 ELSE 1,
          raises |-> on_interrupt = "raises"]
    ELSE [ran |-> sigint,
          child |-> process,
          sigterm |-> FALSE,
          callbacks |-> 0,
          raises |-> sigint = "default_int_handler"]

\* the parent receives SIGINT while run_process is in progress
Sigint ==
    /\ rpc \in {"getsignal", "Popen", "signal", "wait", "restore", "return"}
    /\ Len(signals) < MaxSigints
    /\ signals' = Append(signals, sigint_effect)
    /\ rpc' = IF sigint_effect.raises THEN "raised" ELSE rpc
    /\ UNCHANGED <<on_interrupt, previous, sigint, old_handler, process, notRunVars>>

RunNext ==
    \/ GetSignal \/ Popen \/ InstallHandler \/ ChildExits \/ Wait \/ Restore
    \/ Return \/ Sigint

-----------------------------------------------------------------------------
(* Claims about run_process.                                               *)

\* the call of run_process has ended, by return or by an exception
Ended == rpc \in {"returned", "raised"}

\* C15: once a call of run_process has ended, SIGINT has the handler again
\* that it had immediately before the call.
C15_DispositionRestored == Ended => sigint = previous

\* C15: once a call of run_process has returned, SIGINT has the handler again
\* that it had immediately before the call.
C15_RestoredOnReturn == rpc = "returned" => sigint = previous

\* C15: the call ended after a SIGINT had sent SIGTERM to the child.
C15_Witness ==
    /\ Ended
    /\ \E i \in DOMAIN signals : signals[i].sigterm

\* C17: every SIGINT that arrived while the child was running sent SIGTERM to
\* the child, called on_interrupt exactly once if it was supplied, and did not
\* run the handler that was installed before the call.
C17_EverySigintHandled ==
    \A i \in DOMAIN signals :
        signals[i].child = "running" =>
            /\ signals[i].sigterm
            /\ on_interrupt # "None" => signals[i].callbacks = 1
            /\ signals[i].ran # previous

\* C17: every SIGINT that arrived while the handler of run_process was
\* installed and the child was running sent SIGTERM to the child and called
\* on_interrupt exactly once if it was supplied.
C17_HandledOnceInstalled ==
    \A i \in DOMAIN signals :
        (signals[i].child = "running" /\ signals[i].ran = Handler) =>
            /\ signals[i].sigterm
            /\ on_interrupt # "None" => signals[i].callbacks = 1

\* C17: a SIGINT arrived while the child was running.
C17_Witness ==
    \E i \in DOMAIN signals : signals[i].child = "running"

-----------------------------------------------------------------------------
(* Two callers of the Context: one publishes the command that is executed  *)
(* (cmd, then raw_cmd), the other reads cmd and then raw_cmd.              *)

Writer == 1
Reader == 2

\* the commands the writer publishes, in this order
CommandNames == <<"lookup", "triple", "double", "status">>
CommandLines == <<"lookup x", "triple 3", "double 2", "status -v">>

\* ctx.cmd = name; ctx.raw_cmd = line, for each command in turn
RECURSIVE writer_script(_)
writer_script(k) ==
    IF k > MaxCommands THEN <<>>
    ELSE <<[op |-> "set_cmd", arg |-> CommandNames[k]],
           [op |-> "set_raw_cmd", arg |-> CommandLines[k]]>>
             \o writer_script(k + 1)

\* x = ctx.cmd; y = ctx.raw_cmd
reader_script == <<[op |-> "cmd", arg |-> NoArg], [op |-> "raw_cmd", arg |-> NoArg]>>

\* Context.__init__, and the two callers before their first call
PairInit ==
    /\ lock = [owner |-> NoThread, count |-> 0]
    /\ testing = None
    /\ registry = None
    /\ args = DictArgs
    /\ cmd = EmptyStr
    /\ raw_cmd = EmptyStr
    /\ tpc = [t \in Threads |-> "idle"]
    /\ call = [t \in Threads |-> NoCall]
    /\ ret = [t \in Threads |-> None]
    /\ script = [t \in Threads |->
                    CASE t = Writer -> writer_script(1)
                      [] t = Reader -> reader_script
                      [] OTHER -> <<>>]
    /\ seen = [t \in Threads |-> <<>>]

PairIdle ==
    /\ script = [t \in Threads |-> <<>>]
    /\ seen = [t \in Threads |-> <<>>]

\* a caller makes the next call of its script and reaches the accessor's
\* "with self._lock:"
ScriptCall(t) ==
    /\ tpc[t] = "idle"
    /\ script[t] # <<>>
    /\ call' = [call EXCEPT ![t] = Head(script[t])]
    /\ script' = [script EXCEPT ![t] = Tail(script[t])]
    /\ tpc' = [tpc EXCEPT ![t] = "acquire"]
    /\ UNCHANGED <<lock, fieldVars, ret, seen, notPairVars>>

\* a reading of the end of the with block that keeps the lock
released_kept(l) == l

\* the end of "with self._lock:": RLock.release
released(l) ==
    IF l.count > 1 THEN [l EXCEPT !.count = l.count - 1]
    ELSE [owner |-> NoThread, count |-> 0]

\* the with block is left, the accessor returns, and the caller keeps what a
\* getter returned
ScriptReturn(t) ==
    /\ tpc[t] = "release"
    /\ lock' = released(lock)
    /\ seen' = [seen EXCEPT ![t] =
                   IF call[t].op \in Getters THEN Append(seen[t], ret[t])
                   ELSE seen[t]]
    /\ tpc' = [tpc EXCEPT ![t] = "idle"]
    /\ call' = [call EXCEPT ![t] = NoCall]
    /\ ret' = [ret EXCEPT ![t] = None]
    /\ UNCHANGED <<fieldVars, script, notPairVars>>

PairNext ==
    \E t \in Threads :
        \/ ScriptCall(t)
        \/ Acquire(t)
        \/ Read(t)
        \/ Write(t)
        \/ ScriptReturn(t)

-----------------------------------------------------------------------------
(* Claims about reading several fields of the Context.                     *)

\* the (cmd, raw_cmd) pairs that belong to one command: the initial pair and
\* the pairs the writer publishes
CommandPairs ==
    {<<EmptyStr, EmptyStr>>}
        \cup {<<CommandNames[k], CommandLines[k]>> : k \in 1..MaxCommands}

\* the reader has read cmd and then raw_cmd
ReaderHasPair == Len(seen[Reader]) = 2

\* C18: the lock covers one field access and no more: a caller owns the lock
\* only inside an accessor, so it is free between the two accesses of the
\* writer and between the two accesses of the reader, while each value the
\* reader gets is a cmd or a raw_cmd that was set as a whole.
C18_LockCoversOneAccess ==
    /\ \A t \in Threads : tpc[t] = "idle" => lock.owner # t
    /\ \A t \in Threads : InFieldAccess(t) => lock.owner = t
    /\ ReaderHasPair =>
          /\ \E p \in CommandPairs : seen[Reader][1] = p[1]
          /\ \E p \in CommandPairs : seen[Reader][2] = p[2]

\* C18: the reader has observed a cmd and a raw_cmd that belong to two
\* different commands.
C18_Witness ==
    /\ ReaderHasPair
    /\ \E k, j \in 1..MaxCommands :
          /\ k # j
          /\ seen[Reader][1] = CommandNames[k]
          /\ seen[Reader][2] = CommandLines[j]

-----------------------------------------------------------------------------
(* set_args and the args property: objects, references and copy.deepcopy.  *)
(* Here every object lives in a heap, a reference is its position in the   *)
(* heap, and Context._args and the caller's variable a hold references.    *)

\* the {} of Context.__init__
DictObj == [kind |-> "dict"]
\* a list of ints
ListObj(es) == [kind |-> "list", elems |-> es]
\* a namespace with an int attribute and an attribute that refers to a list
NamespaceObj(v, r) == [kind |-> "namespace", verbose |-> v, items |-> r]

\* copy.copy(h[r]): a new object with the same attributes, the nested list
\* shared with the original
shallow_copy(h, r) == [heap |-> Append(h, h[r]), ref |-> Len(h) + 1]

\* copy.deepcopy(h[r]): new objects for the object and for the list it refers
\* to; the ints are immutable
deepcopy(h, r) ==
    IF h[r].kind = "namespace"
    THEN LET h1 == Append(h, h[h[r].items])
         IN [heap |-> Append(h1, [h[r] EXCEPT !.items = Len(h) + 1]),
             ref |-> Len(h) + 2]
    ELSE [heap |-> Append(h, h[r]), ref |-> Len(h) + 1]

\* what an object is worth to the one who reads it through reference r
value_of(h, r) ==
    CASE h[r].kind = "namespace" ->
             [verbose |-> h[r].verbose, items |-> h[h[r].items].elems]
      [] h[r].kind = "list" -> [verbose |-> 0, items |-> h[r].elems]
      [] OTHER -> [verbose |-> 0, items |-> <<>>]

NoRef == 0

\* a Context whose other fields were set before, and a caller who has built
\* a namespace a
CopyInit ==
    /\ lock = [owner |-> NoThread, count |-> 0]
    /\ testing \in {None} \cup TestingArgs
    /\ registry \in {None} \cup RegistryArgs
    /\ \E i \in {0, 1} :
          /\ cmd = IF i = 0 THEN EmptyStr ELSE CHOOSE c \in CmdArgs : TRUE
          /\ raw_cmd = IF i = 0 THEN EmptyStr ELSE CHOOSE c \in RawCmdArgs : TRUE
    /\ tpc = [t \in Threads |-> "off"]
    /\ call = [t \in Threads |-> NoCall]
    /\ ret = [t \in Threads |-> None]
    /\ heap = <<DictObj, ListObj(<<>>), NamespaceObj(0, 2)>>
    /\ args = 1
    /\ caller_a = 3
    /\ got = NoRef
    /\ dpc = "call"

CopyIdle ==
    /\ heap = <<>>
    /\ caller_a = NoRef
    /\ got = NoRef
    /\ dpc = "idle"

\* ctx.set_args(a): with self._lock: self._args = copy.deepcopy(args)
SetArgs ==
    /\ dpc = "call"
    /\ heap' = deepcopy(heap, caller_a).heap
    /\ args' = deepcopy(heap, caller_a).ref
    /\ dpc' = "stored"
    /\ UNCHANGED <<lock, testing, registry, cmd, raw_cmd, tpc, call, ret, caller_a, got,
                   notCopyVars>>

\* ctx.args: with self._lock: return self._args
GetArgs ==
    /\ dpc \in {"call", "stored"}
    /\ got' = args
    /\ UNCHANGED <<ctxVars, heap, caller_a, dpc, notCopyVars>>

\* the caller assigns an attribute of its object: a.verbose = v
MutateAttribute ==
    /\ dpc \in {"call", "stored"}
    /\ \E v \in {0, 1, 2} \ {heap[caller_a].verbose} :
          heap' = [heap EXCEPT ![caller_a].verbose = v]
    /\ UNCHANGED <<ctxVars, caller_a, got, dpc, notCopyVars>>

\* the caller changes the object nested in its object: a.items.append(x)
MutateNested ==
    /\ dpc \in {"call", "stored"}
    /\ Len(heap[heap[caller_a].items].elems) < MaxItems
    /\ \E x \in {0, 1} :
          heap' = [heap EXCEPT ![heap[caller_a].items].elems = Append(@, x)]
    /\ UNCHANGED <<ctxVars, caller_a, got, dpc, notCopyVars>>

CopyNext == SetArgs \/ GetArgs \/ MutateAttribute \/ MutateNested

-----------------------------------------------------------------------------
(* Claims about set_args.                                                  *)

\* C19: set_args(a) stores an object worth what a is worth at the call and
\* changes none of testing, registry, cmd and raw_cmd; once it is stored, no
\* step of the caller on a or on the object nested in a changes what the args
\* property returns.
C19_DeepCopyAndFrame ==
    [][/\ (dpc = "call" /\ dpc' = "stored") =>
              /\ value_of(heap', args') = value_of(heap, caller_a)
              /\ UNCHANGED <<testing, registry, cmd, raw_cmd>>
       /\ (dpc = "stored" /\ dpc' = "stored") =>
              /\ args' = args
              /\ value_of(heap', args') = value_of(heap, args)]_vars

\* C19: after set_args(a) the caller changed the attribute of a and the list
\* nested in a, and the args property returns an object that shows neither
\* change.
C19_Witness ==
    /\ dpc = "stored"
    /\ got = args
    /\ heap[got].verbose # heap[caller_a].verbose
    /\ heap[heap[got].items].elems # heap[heap[caller_a].items].elems
    /\ testing # None /\ cmd # EmptyStr

-----------------------------------------------------------------------------
(* The shell: command lines parsed, bound and dispatched one after the     *)
(* other (parser, binder and dispatcher as the specification words them,   *)
(* over the commands of the tests and of the example).                     *)

\* a token of a command line: a bare word, or --name=value
Word(w) == [class |-> "word", text |-> w, value |-> <<>>]
Option(n, v) == [class |-> "option", text |-> n, value |-> v]

IsWord(t) == t.class = "word"
IsOption(t) == t.class = "option"

\* texts typed as option values
Text15 == <<"1", "5">>
Text22 == <<"2", "2">>
TextGiza == <<"g", "i", "z", "a">>

\* the registry: the super-command of supercommands_test.py and commands of
\* sample_commands.py
SuperCommands == {"super-command"}
TopCommands == {"good-name", "async-good-name", "triple", "lookup"}
Subcommands(c) ==
    IF c = "super-command" THEN {"sub-command", "another-command"} ELSE {}

\* the constructor parameters of a super-command; shared defaults to 10
SharedParams(c) == IF c = "super-command" THEN {"shared"} ELSE {}

\* the arguments a leaf command declares: all required
LeafParams(leaf) ==
    CASE leaf = "sub-command" -> {"arg1", "arg2"}
      [] leaf = "another-command" -> {"arg1"}
      [] leaf = "triple" -> {"number"}
      [] leaf = "lookup" -> {"hosts", "nice"}
      [] OTHER -> {}

ParamType(p) == IF p \in {"shared", "arg2", "number", "nice"} THEN "int" ELSE "str"

\* what the handler of a leaf command can do: def or async def, the value
\* its body returns or whether it raises, and its suspensions
HandlersOf(leaf) ==
    CASE leaf = "sub-command" ->
             {[is_async |-> TRUE, value |-> IntObj(45), raises |-> FALSE, suspends |-> 0]}
      [] leaf = "another-command" ->
             {[is_async |-> TRUE, value |-> IntObj(22), raises |-> FALSE, suspends |-> 0]}
      [] leaf = "good-name" ->
             {[is_async |-> FALSE, value |-> NoneObj, raises |-> FALSE, suspends |-> 0]}
      [] leaf = "async-good-name" ->
             {[is_async |-> TRUE, value |-> NoneObj, raises |-> FALSE, suspends |-> 0]}
      [] leaf = "triple" ->
             {[is_async |-> TRUE, value |-> NoneObj, raises |-> FALSE, suspends |-> 1]}
      [] OTHER ->
             {[is_async |-> FALSE, value |-> IntObj(0), raises |-> r, suspends |-> 0] :
                  r \in BOOLEAN}

\* exit codes
ValidationErrorCode == 4
FatalErrorCode == 1
ParseErrorCode == 2
UnknownCommandCode == 3
NoCode == 0 - 1

\* 4.6: the parse of a line.  The first token names the command; for a
\* super-command the next word names the subcommand; every option of the
\* line stays to be bound
parse(line) ==
    LET words == SelectSeq(line, IsWord)
        none == [error |-> "none", path |-> <<>>]
    IN IF line = <<>> \/ ~IsWord(line[1]) THEN [none EXCEPT !.error = "parse"]
       ELSE IF line[1].text \in SuperCommands
       THEN IF Len(words) = 2 /\ words[2].text \in Subcommands(line[1].text)
            THEN [none EXCEPT !.path = <<line[1].text, words[2].text>>]
            ELSE [none EXCEPT !.error = "parse"]
       ELSE IF line[1].text \in TopCommands
       THEN IF Len(words) = 1 THEN [none EXCEPT !.path = <<line[1].text>>]
            ELSE [none EXCEPT !.error = "parse"]
       ELSE [none EXCEPT !.error = "unknown"]

\* a parser that gives the constructor only the options typed before the
\* subcommand token
constructor_options_before_subcommand(line) ==
    LET at == CHOOSE i \in 2..Len(line) :
                  IsWord(line[i]) /\ \A j \in 2..(i - 1) : ~IsWord(line[j])
    IN SubSeq(line, 2, at - 1)

\* the options a super-command's constructor is bound from: those of the
\* whole line, before or after the subcommand token
constructor_options(line) == SelectSeq(line, IsOption)

\* the value typed last for option n
OptionValue(opts, n) ==
    opts[CHOOSE i \in DOMAIN opts :
             opts[i].text = n /\ \A j \in DOMAIN opts : opts[j].text = n => j <= i].value

HasOption(opts, n) == \E i \in DOMAIN opts : opts[i].text = n

\* 4.5: coercion to the declared type; int(text) raises for a text that is
\* not a number
coerces(type, text) == type = "str" \/ IsDigits(text)
coerce(type, text) ==
    IF type = "int" THEN IntObj(int_of(text, 0)) ELSE StrObj(text)

\* 4.7 step 2: the shared arguments of the instance, typed or defaulted
shared_of(pr, line) ==
    LET opts == constructor_options(line)
        ps == SharedParams(pr.path[1])
    IN [ok |-> \A p \in ps : HasOption(opts, p) => coerces(ParamType(p), OptionValue(opts, p)),
        shared |-> [p \in ps |->
                       IF HasOption(opts, p) /\ coerces(ParamType(p), OptionValue(opts, p))
                       THEN coerce(ParamType(p), OptionValue(opts, p))
                       ELSE IntObj(10)]]

\* 4.5: the call frame of the leaf command, from the options that are not
\* shared arguments; a missing argument, an option the leaf does not declare
\* or a failed coercion is an ArgsValidationError
frame_of(pr, line) ==
    LET leaf == pr.path[Len(pr.path)]
        ps == LeafParams(leaf)
        opts == SelectSeq(line, IsOption)
        mine(o) == o.text \notin SharedParams(pr.path[1])
        rest == SelectSeq(opts, mine)
    IN [ok |-> /\ \A p \in ps : HasOption(rest, p)
                                   /\ coerces(ParamType(p), OptionValue(rest, p))
               /\ \A i \in DOMAIN rest : rest[i].text \in ps,
        frame |-> [p \in ps |->
                      IF HasOption(rest, p) /\ coerces(ParamType(p), OptionValue(rest, p))
                      THEN coerce(ParamType(p), OptionValue(rest, p))
                      ELSE NoneObj]]

\* a dispatcher that reports an uncaught error of the handler with the code
\* of a validation error
exit_code_fatal_as_validation(outcome) ==
    IF outcome.raised THEN ValidationErrorCode
    ELSE IF outcome.value = NoneObj THEN 0 ELSE outcome.value.n

\* 4.7 step 6: the exit code of a handler's outcome
exit_code(outcome) ==
    IF outcome.raised THEN FatalErrorCode
    ELSE IF outcome.value = NoneObj THEN 0 ELSE outcome.value.n

\* super-command sub-command --arg1=giza --arg2=22 with --shared=15 typed
\* after k of the other tokens: before sub-command (k = 0) up to after
\* --arg2=22 (k = 3)
SubCommandTokens ==
    <<Word("sub-command"), Option("arg1", TextGiza), Option("arg2", Text22)>>
SubCommandLine(k) ==
    <<Word("super-command")>>
        \o SubSeq(SubCommandTokens, 1, k)
        \o <<Option("shared", Text15)>>
        \o SubSeq(SubCommandTokens, k + 1, 3)

\* the lines typed
Lines ==
    {SubCommandLine(k) : k \in 0..3}
        \cup {<<Word("super-command")>> \o SubCommandTokens,
              <<Word("super-command"), Word("another-command"), Option("arg1", TextGiza)>>,
              <<Word("super-command"), Option("shared", Text15)>>,
              <<Word("super-command"), Word("sub-command"), Option("arg1", TextGiza)>>,
              <<Word("super-command"), Word("sub-command"), Option("arg1", TextGiza),
                Option("arg2", TextGiza)>>,
              <<Word("good-name")>>,
              <<Word("async-good-name")>>,
              <<Word("triple"), Option("number", Text22)>>,
              <<Word("lookup"), Option("hosts", TextGiza), Option("nice", Text22)>>,
              <<Word("lookupp")>>}

\* a line that is typed and not yet accepted
Queued ==
    [phase |-> "queued", path |-> <<>>, shared |-> <<>>, frame |-> <<>>,
     left |-> 0, outcome |-> [ran |-> FALSE, raised |-> FALSE, value |-> NoneObj],
     code |-> NoCode]

ShellInit ==
    /\ lock = [owner |-> NoThread, count |-> 0]
    /\ testing = None
    /\ registry = None
    /\ args = DictArgs
    /\ cmd = EmptyStr
    /\ raw_cmd = EmptyStr
    /\ tpc = [t \in Threads |-> "off"]
    /\ call = [t \in Threads |-> NoCall]
    /\ ret = [t \in Threads |-> None]
    /\ input \in SeqsUpTo(Lines, MaxLines)
    /\ jobs = [i \in DOMAIN input |-> Queued]

ShellIdle ==
    /\ input = <<>>
    /\ jobs = <<>>

\* the phases in which a line is parsed, bound or dispatched and not done
InFlight(i) == jobs[i].phase \in {"parsed", "bound", "awaiting", "returned"}

\* a shell that takes the next line while a handler is still suspended
can_accept_while_busy(i) == TRUE

\* 5: the next line is accepted only when no line is in flight
can_accept(i) == \A j \in DOMAIN jobs : ~InFlight(j)

\* 4.7 step 1: the next line is accepted and parsed; a line that does not
\* parse is reported and no handler runs
ParseLine(i) ==
    /\ i \in DOMAIN jobs
    /\ jobs[i].phase = "queued"
    /\ \A j \in 1..(i - 1) : jobs[j].phase # "queued"
    /\ can_accept(i)
    /\ LET pr == parse(input[i])
       IN jobs' = [jobs EXCEPT ![i] =
              CASE pr.error = "none" -> [@ EXCEPT !.phase = "parsed", !.path = pr.path]
                [] pr.error = "unknown" -> [@ EXCEPT !.phase = "done", !.code = UnknownCommandCode]
                [] OTHER -> [@ EXCEPT !.phase = "done", !.code = ParseErrorCode]]
    /\ UNCHANGED <<ctxVars, input, notShellVars>>

\* 4.7 steps 2 and 3: the super-command is instantiated with its shared
\* arguments and the leaf's arguments are bound; a validation failure is
\* reported with the validation-error code
BindLine(i) ==
    /\ i \in DOMAIN jobs
    /\ jobs[i].phase = "parsed"
    /\ LET s == shared_of(jobs[i], input[i])
           f == frame_of(jobs[i], input[i])
       IN jobs' = [jobs EXCEPT ![i] =
              IF s.ok /\ f.ok
              THEN [@ EXCEPT !.phase = "bound", !.shared = s.shared, !.frame = f.frame]
              ELSE [@ EXCEPT !.phase = "done", !.code = ValidationErrorCode]]
    /\ UNCHANGED <<ctxVars, input, notShellVars>>

\* 4.7 steps 4 and 5: cmd and raw_cmd are set, the handler is called and
\* try_await is handed what it returned: the body of a def handler has run,
\* the coroutine of an async def handler is awaited
InvokeLine(i) ==
    /\ i \in DOMAIN jobs
    /\ jobs[i].phase = "bound"
    /\ cmd' = jobs[i].path[Len(jobs[i].path)]
    /\ raw_cmd' = input[i]
    /\ \E h \in HandlersOf(jobs[i].path[Len(jobs[i].path)]) :
          LET res == IF h.is_async THEN Coroutine(h.value, h.suspends, h.raises)
                     ELSE h.value
          IN jobs' = [jobs EXCEPT ![i] =
                 IF ~h.is_async /\ h.raises
                 THEN [@ EXCEPT !.phase = "returned",
                                !.outcome = [ran |-> TRUE, raised |-> TRUE, value |-> NoneObj]]
                 ELSE IF isawaitable(res)
                 THEN [@ EXCEPT !.phase = "awaiting", !.left = res.suspends,
                                !.outcome = [ran |-> TRUE, raised |-> res.raises,
                                             value |-> res.value]]
                 ELSE [@ EXCEPT !.phase = "returned",
                                !.outcome = [ran |-> TRUE, raised |-> FALSE, value |-> res]]]
    /\ UNCHANGED <<lock, testing, registry, args, tpc, call, ret, input, notShellVars>>

\* the awaited handler was suspended and is resumed
ResumeLine(i) ==
    /\ i \in DOMAIN jobs
    /\ jobs[i].phase = "awaiting"
    /\ jobs[i].left > 0
    /\ jobs' = [jobs EXCEPT ![i].left = @ - 1]
    /\ UNCHANGED <<ctxVars, input, notShellVars>>

\* the awaited handler ends
CompleteLine(i) ==
    /\ i \in DOMAIN jobs
    /\ jobs[i].phase = "awaiting"
    /\ jobs[i].left = 0
    /\ jobs' = [jobs EXCEPT ![i].phase = "returned"]
    /\ UNCHANGED <<ctxVars, input, notShellVars>>

\* 4.7 step 6: the handler's outcome becomes the exit code of the line
NormalizeLine(i) ==
    /\ i \in DOMAIN jobs
    /\ jobs[i].phase = "returned"
    /\ jobs' = [jobs EXCEPT ![i].phase = "done", ![i].code = exit_code(jobs[i].outcome)]
    /\ UNCHANGED <<ctxVars, input, notShellVars>>

ShellNext ==
    \E i \in 1..MaxLines :
        \/ ParseLine(i)
        \/ BindLine(i)
        \/ InvokeLine(i)
        \/ ResumeLine(i)
        \/ CompleteLine(i)
        \/ NormalizeLine(i)

-----------------------------------------------------------------------------
(* Claims about the shell.                                                 *)

\* the tokens of a line that are not the shared option, in their order
IsNotShared(t) == ~(IsOption(t) /\ t.text = "shared")
IsShared(t) == IsOption(t) /\ t.text = "shared"

\* two lines that differ at most in where the shared option is typed
SameButSharedPlace(l1, l2) ==
    /\ SelectSeq(l1, IsNotShared) = SelectSeq(l2, IsNotShared)
    /\ SelectSeq(l1, IsShared) = SelectSeq(l2, IsShared)

\* a line that names a super-command
IsSuperCommandLine(l) == l # <<>> /\ IsWord(l[1]) /\ l[1].text \in SuperCommands

Done(i) == jobs[i].phase = "done"

\* C11: two lines of a super-command that differ only in where the shared
\* argument is typed, before the subcommand token or after any of the
\* subcommand's arguments, give the same shared value on the instance, the
\* same subcommand arguments and the same exit code.
C11_SharedOrderIndependent ==
    \A i, j \in DOMAIN jobs :
        (/\ Done(i) /\ Done(j)
         /\ IsSuperCommandLine(input[i])
         /\ SameButSharedPlace(input[i], input[j])) =>
            /\ jobs[i].shared = jobs[j].shared
            /\ jobs[i].frame = jobs[j].frame
            /\ jobs[i].code = jobs[j].code

\* C11: the line with --shared=15 before sub-command and the line with it
\* after --arg2=22 have both run with shared = 15 and returned 45.
C11_Witness ==
    /\ Len(input) = 2
    /\ input[1] = SubCommandLine(0) /\ input[2] = SubCommandLine(3)
    /\ Done(1) /\ Done(2)
    /\ jobs[1].shared["shared"] = IntObj(15) /\ jobs[2].shared["shared"] = IntObj(15)
    /\ jobs[1].code = 45 /\ jobs[2].code = 45

\* C13: a handler that returned None gives exit code 0, a handler that
\* returned the int n gives n, and a handler that raised gives the
\* fatal-error code, which no line that failed validation gets.
C13_ExitCodeNormalized ==
    \A i \in DOMAIN jobs :
        (Done(i) /\ jobs[i].outcome.ran) =>
            /\ (~jobs[i].outcome.raised /\ jobs[i].outcome.value = NoneObj) =>
                   jobs[i].code = 0
            /\ (~jobs[i].outcome.raised /\ jobs[i].outcome.value # NoneObj) =>
                   jobs[i].code = jobs[i].outcome.value.n
            /\ jobs[i].outcome.raised =>
                   /\ jobs[i].code = FatalErrorCode
                   /\ jobs[i].code # ValidationErrorCode
                   /\ \A j \in DOMAIN jobs :
                          (Done(j) /\ jobs[j].path # <<>> /\ ~jobs[j].outcome.ran) =>
                              jobs[j].code # jobs[i].code

\* C13: one line ended with a handler that raised, another failed validation.
C13_Witness ==
    \E i, j \in DOMAIN jobs :
        /\ Done(i) /\ jobs[i].outcome.raised
        /\ Done(j) /\ jobs[j].path # <<>> /\ ~jobs[j].outcome.ran

\* C14: at most one line is in flight, and a line is parsed only when every
\* line before it is done, the suspensions of its handler included.
C14_OneCommandInFlight ==
    /\ Cardinality({i \in DOMAIN jobs : InFlight(i)}) <= 1
    /\ \A i, j \in DOMAIN jobs :
          (i < j /\ jobs[j].phase # "queued") => Done(i)

\* C14: the handler of the first line is suspended while the second line
\* waits to be accepted.
C14_Witness ==
    /\ Len(input) = 2
    /\ jobs[1].phase = "awaiting" /\ jobs[1].left > 0
    /\ jobs[2].phase = "queued"

-----------------------------------------------------------------------------
(* Specifications: one per component, the other components at rest.        *)

InitMatch == MatchInit /\ ApproxIdle /\ NameIdle /\ CtxIdle /\ MsgIdle /\ AwaitIdle /\ RunIdle /\ PairIdle /\ CopyIdle /\ ShellIdle

SpecMatch == InitMatch /\ [][MatchNext]_vars

InitApprox == ApproxInit /\ MatchIdle /\ NameIdle /\ CtxIdle /\ MsgIdle /\ AwaitIdle /\ RunIdle /\ PairIdle /\ CopyIdle /\ ShellIdle

SpecApprox == InitApprox /\ [][ApproxNext]_vars

InitName == NameInit /\ MatchIdle /\ ApproxIdle /\ CtxIdle /\ MsgIdle /\ AwaitIdle /\ RunIdle /\ PairIdle /\ CopyIdle /\ ShellIdle

SpecName == InitName /\ [][NameNext]_vars

InitContext == CtxInit /\ MatchIdle /\ ApproxIdle /\ NameIdle /\ MsgIdle /\ AwaitIdle /\ RunIdle /\ PairIdle /\ CopyIdle /\ ShellIdle

SpecContext == InitContext /\ [][CtxNext]_vars

InitMsg == MsgInit /\ MatchIdle /\ ApproxIdle /\ NameIdle /\ CtxIdle /\ AwaitIdle /\ RunIdle /\ PairIdle /\ CopyIdle /\ ShellIdle

SpecMsg == InitMsg /\ [][MsgNext]_vars

InitAwait == AwaitInit /\ MatchIdle /\ ApproxIdle /\ NameIdle /\ CtxIdle /\ MsgIdle /\ RunIdle /\ PairIdle /\ CopyIdle /\ ShellIdle

SpecAwait == InitAwait /\ [][AwaitNext]_vars

InitRun == RunInit /\ MatchIdle /\ ApproxIdle /\ NameIdle /\ CtxIdle /\ MsgIdle /\ AwaitIdle /\ PairIdle /\ CopyIdle /\ ShellIdle

SpecRun == InitRun /\ [][RunNext]_vars

InitPair == PairInit /\ MatchIdle /\ ApproxIdle /\ NameIdle /\ MsgIdle /\ AwaitIdle /\ RunIdle /\ CopyIdle /\ ShellIdle

SpecPair == InitPair /\ [][PairNext]_vars

InitCopy == CopyInit /\ MatchIdle /\ ApproxIdle /\ NameIdle /\ MsgIdle /\ AwaitIdle /\ RunIdle /\ PairIdle /\ ShellIdle

SpecCopy == InitCopy /\ [][CopyNext]_vars

InitShell == ShellInit /\ MatchIdle /\ ApproxIdle /\ NameIdle /\ MsgIdle /\ AwaitIdle /\ RunIdle /\ PairIdle /\ CopyIdle

SpecShell == InitShell /\ [][ShellNext]_vars

\* every component, one of them in use
Init == InitMatch \/ InitApprox \/ InitName \/ InitContext \/ InitMsg \/ InitAwait \/ InitRun \/ InitPair \/ InitCopy \/ InitShell

Next == MatchNext \/ ApproxNext \/ NameNext \/ CtxNext \/ MsgNext \/ AwaitNext \/ RunNext \/ PairNext \/ CopyNext \/ ShellNext

Spec == Init /\ [][Next]_vars

=============================================================================
